---- MODULE Spec2Model ----
(***************************************************************************)
(* A model of starlette/testclient.py: the HTTP exchange driven by         *)
(* _ASGIAdapter.send (its receive and send callables, and the handling of  *)
(* the application's outcome), the duplex session of                       *)
(* WebSocketTestSession, the dispatch of TestClient.websocket_connect, and *)
(* the lifespan handshake of TestClient.__enter__ and __exit__.            *)
(*                                                                         *)
(* bytes values are sequences of integers 0..255, str values are sequences *)
(* of code points; a request body or chunk carries its Python type as a    *)
(* tag.  Dictionaries (messages, raw_kwargs) are functions whose domain is *)
(* the set of keys present.                                                *)
(***************************************************************************)
EXTENDS Integers, Sequences, FiniteSets, TLC

\* ------------------------------------------------------------------ bounds

\* The largest number of messages the application gets accepted by send.
MaxSends == 3
\* The largest number of chunks a request body generator yields.
MaxChunks == 2
\* The receive calls an application makes: every chunk, the closing event
\* and two further calls.
MaxReceives == MaxChunks + 3

\* ------------------------------------------------------------ conversions

RECURSIVE EncodeUtf8(_)
\* str.encode("utf-8") on a sequence of code points below 65536.
EncodeUtf8(s) ==
    IF s = <<>> THEN <<>>
    ELSE LET cp == Head(s)
             enc == IF cp < 128 THEN <<cp>>
                    ELSE IF cp < 2048
                         THEN <<192 + (cp \div 64), 128 + (cp % 64)>>
                         ELSE <<224 + (cp \div 4096),
                                128 + ((cp \div 64) % 64),
                                128 + (cp % 64)>>
         IN  enc \o EncodeUtf8(Tail(s))

IsCont(b) == b >= 128 /\ b <= 191

RECURSIVE DecodeUtf8(_)
\* bytes.decode() (strict UTF-8) for one- and two-byte sequences: the code
\* points, or ok = FALSE where Python raises UnicodeDecodeError.
DecodeUtf8(b) ==
    IF b = <<>> THEN [ok |-> TRUE, v |-> <<>>]
    ELSE LET b1 == Head(b)
         IN  IF b1 < 128
             THEN LET r == DecodeUtf8(Tail(b))
                  IN  [ok |-> r.ok, v |-> <<b1>> \o r.v]
             ELSE IF b1 >= 194 /\ b1 <= 223 /\ Len(b) >= 2 /\ IsCont(b[2])
                  THEN LET r == DecodeUtf8(Tail(Tail(b)))
                       IN  [ok |-> r.ok,
                            v |-> <<(b1 - 192) * 64 + (b[2] - 128)>> \o r.v]
                  ELSE [ok |-> FALSE, v |-> <<>>]

\* (key.decode(), value.decode()) for key, value in message["headers"]
DecodeHeaders(hs) ==
    [i \in 1..Len(hs) |-> <<DecodeUtf8(hs[i][1]).v, DecodeUtf8(hs[i][2]).v>>]

HeadersDecodable(hs) ==
    \A i \in 1..Len(hs) : DecodeUtf8(hs[i][1]).ok /\ DecodeUtf8(hs[i][2]).ok

\* http.HTTPStatus(status_code).phrase, "" for a code the table lacks.
_get_reason_phrase(status_code) ==
    CASE status_code = 200 -> "OK"
      [] status_code = 404 -> "Not Found"
      [] status_code = 500 -> "Internal Server Error"
      [] OTHER -> ""

\* dict[key] = value
Put(d, k, v) == [x \in DOMAIN d \cup {k} |-> IF x = k THEN v ELSE d[x]]

\* dict.get(key, default)
Get(d, k, default) == IF k \in DOMAIN d THEN d[k] ELSE default

\* ---------------------------------------------------------------- BytesIO

NewBytesIO == [buf |-> <<>>, pos |-> 0]

\* BytesIO.write: the bytes replace what lies at the position and extend the
\* buffer, and the position moves past them.
BytesIOWrite(io, b) ==
    [buf |-> SubSeq(io.buf, 1, io.pos) \o b
             \o SubSeq(io.buf, io.pos + Len(b) + 1, Len(io.buf)),
     pos |-> io.pos + Len(b)]

\* A send that leaves the position at the end of what it wrote.
BytesIONoSeek(io) == io

\* BytesIO.seek(0)
BytesIOSeek0(io) == [io EXCEPT !.pos = 0]

\* BytesIO.read(): everything from the position on.
BytesIORead(io) == SubSeq(io.buf, io.pos + 1, Len(io.buf))

\* ------------------------------------------------------------------ state

VARIABLES
    \* _ASGIAdapter.send: the request and the adapter's option
    method,                  \* request.method
    raise_server_exceptions, \* self.raise_server_exceptions
    body,                    \* request.body (a generator keeps its position)
    \* _ASGIAdapter.send: the locals its receive and send close over
    request_complete,
    response_started,
    response_complete,
    raw_kwargs,
    template,
    context,
    \* the application's coroutine under loop.run_until_complete
    appState,                \* "running", "returned" or "raised"
    appExc,                  \* the failure that left the application
    recvPending,             \* a receive call is suspended in its sleep loop
    \* what the exchange has shown so far
    received,                \* the events receive has returned, in order
    sent,                    \* the messages send has accepted, in order
    lastSend,                \* the last send call: its message and failure
    outcome                  \* what _ASGIAdapter.send gave its caller

httpVars == <<method, raise_server_exceptions, body, request_complete,
              response_started, response_complete, raw_kwargs, template,
              context, appState, appExc, recvPending, received, sent,
              lastSend, outcome>>

VARIABLES
    \* WebSocketTestSession
    accepted_subprotocol,
    _receive_queue,          \* to the application
    _send_queue,             \* from the application
    threadState,             \* self._thread and the application running in it
    \* the caller of the session
    ctorStep,                \* the statement of __init__ to run next
    wsPc,                    \* where the caller stands
    wsExc,                   \* the failure the caller was last raised
    \* what the session has shown so far
    enqueued,                \* every message put to _receive_queue, in order
    appReceived,             \* the messages _asgi_receive has returned
    deposited,               \* every item put to _send_queue, in order
    callerReceived           \* the items the caller has taken off _send_queue

wsVars == <<accepted_subprotocol, _receive_queue, _send_queue, threadState,
            ctorStep, wsPc, wsExc, enqueued, appReceived, deposited,
            callerReceived>>

VARIABLES
    \* TestClient, the lifespan handshake
    send_queue,              \* from the application
    receive_queue,           \* to the application
    task,                    \* self.task, the lifespan() coroutine
    \* the caller of __enter__ and __exit__
    lifespanPc,              \* where the caller stands
    lifespanExc,             \* the failure __enter__ or __exit__ raised
    \* what the handshake has shown so far
    lifespanPut,             \* every item put to send_queue, in order
    lifespanGot,             \* the items the waits took off send_queue
    lifespanReceived         \* the messages the application has received

lifespanVars == <<send_queue, receive_queue, task, lifespanPc, lifespanExc,
                  lifespanPut, lifespanGot, lifespanReceived>>

VARIABLES
    \* TestClient.websocket_connect
    url,                     \* the URL the request is dispatched to
    escape,                  \* how _ASGIAdapter.send was left
    connected                \* how websocket_connect ended

connectVars == <<url, escape, connected>>

\* The variables an HTTP exchange leaves alone.
nonHttpVars == <<wsVars, lifespanVars, connectVars>>

\* The variables a duplex session leaves alone.
nonWsVars == <<httpVars, lifespanVars, connectVars>>

\* The variables the lifespan handshake leaves alone.
nonLifespanVars == <<httpVars, wsVars, connectVars>>

\* --------------------------------------------------------- the inputs

Methods == {"GET", "HEAD"}

\* A chunk a body generator yields: bytes, or str ("é").
Chunks == {[t |-> "bytes", v |-> <<97>>], [t |-> "str", v |-> <<233>>]}

ChunkSeqs == UNION {[1..n -> Chunks] : n \in 0..MaxChunks}

NoBody == [kind |-> "None", v |-> <<>>, chunks |-> <<>>, next |-> 1]

\* request.body: None, bytes, str or a generator (chunks, and the index of
\* the chunk its next resumption yields).
RequestBodies ==
    {NoBody,
     [kind |-> "bytes", v |-> <<97, 98>>, chunks |-> <<>>, next |-> 1],
     [kind |-> "str", v |-> <<233>>, chunks |-> <<>>, next |-> 1]}
    \cup {[kind |-> "generator", v |-> <<>>, chunks |-> c, next |-> 1] :
            c \in ChunkSeqs}

\* Header pairs (name, value) as bytes: ("a", "1"), ("b", "é" in UTF-8),
\* and ("b", 0xFF), which is no UTF-8.
HdrA == <<<<97>>, <<49>>>>
HdrB == <<<<98>>, <<195, 169>>>>
HdrBad == <<<<98>>, <<255>>>>

StartMsgs ==
    {[type |-> "http.response.start", status |-> 200, headers |-> <<HdrA, HdrB>>],
     [type |-> "http.response.start", status |-> 404, headers |-> <<HdrB, HdrA>>],
     [type |-> "http.response.start", status |-> 299, headers |-> <<HdrA, HdrBad>>]}

\* "body" and "more_body" are optional keys of http.response.body.
BodyMsgs ==
    {[type |-> "http.response.body", body |-> <<97>>, more_body |-> TRUE],
     [type |-> "http.response.body", body |-> <<98, 99>>, more_body |-> TRUE],
     [type |-> "http.response.body", body |-> <<98, 99>>],
     [type |-> "http.response.body"]}

TemplateMsgs ==
    {[type |-> "http.response.template", template |-> "index.html",
      context |-> "ctx"]}

AppMessages == StartMsgs \cup BodyMsgs \cup TemplateMsgs

NoSend == [type |-> "none", exc |-> "none"]

\* The state _ASGIAdapter.send sets up before it runs the application.
HttpStart(methods, raises, bodies) ==
    /\ method \in methods
    /\ raise_server_exceptions \in raises
    /\ body \in bodies
    /\ request_complete = FALSE
    /\ response_started = FALSE
    /\ response_complete = FALSE
    /\ raw_kwargs = [k \in {"body"} |-> NewBytesIO]
    /\ template = "None"
    /\ context = "None"
    /\ appState = "running"
    /\ appExc = "none"
    /\ recvPending = FALSE
    /\ received = <<>>
    /\ sent = <<>>
    /\ lastSend = NoSend
    /\ outcome = [kind |-> "pending"]

\* ------------------------------------------------------------- receive

Disconnect == [type |-> "http.disconnect"]

\* A receive that marks the request complete only for an exhausted generator.
CompletesRequestGeneratorOnly(b) ==
    b.kind = "generator" /\ b.next > Len(b.chunks)

\* request_complete = True: on StopIteration, and for every body that is no
\* generator.
CompletesRequest(b) == b.kind # "generator" \/ b.next > Len(b.chunks)

\* A receive that looks ahead and clears more_body on the last chunk.
MoreBodyLookahead(b) == b.next < Len(b.chunks)

\* "more_body": True on every chunk the generator yields.
MoreBodyOfChunk(b) == TRUE

\* One pass through the body of receive below its request_complete test:
\* the event returned, the generator's new position and request_complete.
ReceiveBody(b) ==
    CASE b.kind = "str" ->
           [event |-> [type |-> "http.request", body |-> EncodeUtf8(b.v)],
            body |-> b, request_complete |-> CompletesRequest(b)]
      [] b.kind = "None" ->
           [event |-> [type |-> "http.request", body |-> <<>>],
            body |-> b, request_complete |-> CompletesRequest(b)]
      [] b.kind = "generator" ->
           IF b.next <= Len(b.chunks)
           THEN LET chunk == b.chunks[b.next]
                    bytes == IF chunk.t = "str" THEN EncodeUtf8(chunk.v)
                             ELSE chunk.v
                IN  [event |-> [type |-> "http.request", body |-> bytes,
                                more_body |-> MoreBodyOfChunk(b)],
                     body |-> [b EXCEPT !.next = b.next + 1],
                     request_complete |-> CompletesRequest(b)]
           ELSE [event |-> [type |-> "http.request", body |-> <<>>],
                 body |-> b, request_complete |-> CompletesRequest(b)]
      [] OTHER ->
           [event |-> [type |-> "http.request", body |-> b.v],
            body |-> b, request_complete |-> CompletesRequest(b)]

\* A receive that does not wait for the response before it disconnects.
SleepLoopEndsAtOnce(complete) == TRUE

\* The loop `while not response_complete: await asyncio.sleep(0.0001)` ends.
SleepLoopEnds(complete) == complete

\* The application awaits receive().
Receive ==
    /\ appState = "running"
    /\ ~recvPending
    /\ Len(received) < MaxReceives
    /\ IF request_complete
       THEN IF SleepLoopEnds(response_complete)
            THEN /\ received' = Append(received, Disconnect)
                 /\ UNCHANGED recvPending
            ELSE /\ recvPending' = TRUE
                 /\ UNCHANGED received
       ELSE /\ received' = Append(received, ReceiveBody(body).event)
            /\ UNCHANGED recvPending
    /\ body' = IF request_complete THEN body ELSE ReceiveBody(body).body
    /\ request_complete' =
          IF request_complete THEN TRUE ELSE ReceiveBody(body).request_complete
    /\ UNCHANGED <<method, raise_server_exceptions, response_started,
                   response_complete, raw_kwargs, template, context, appState,
                   appExc, sent, lastSend, outcome>>
    /\ UNCHANGED nonHttpVars

\* The suspended receive leaves its sleep loop once the response is complete.
ReceiveResume ==
    /\ appState = "running"
    /\ recvPending
    /\ SleepLoopEnds(response_complete)
    /\ recvPending' = FALSE
    /\ received' = Append(received, Disconnect)
    /\ UNCHANGED <<method, raise_server_exceptions, body, request_complete,
                   response_started, response_complete, raw_kwargs, template,
                   context, appState, appExc, sent, lastSend, outcome>>
    /\ UNCHANGED nonHttpVars

\* ---------------------------------------------------------------- send

\* A send that takes every http.response.start.
StartAllowedAlways(started) == TRUE

\* assert not response_started
StartAllowed(started) == ~started

\* A send that lacks the assertion on response_complete.
BodyRefusalStartOnly(started, complete) ==
    IF ~started THEN "AssertBodyWithoutStart" ELSE "none"

\* The two assertions of the http.response.body branch, in their order.
BodyRefusal(started, complete) ==
    IF ~started THEN "AssertBodyWithoutStart"
    ELSE IF complete THEN "AssertBodyAfterComplete"
    ELSE "none"

\* A send that writes the body whatever the method.
WritesBodyAlways(m) == TRUE

\* if request.method != "HEAD"
WritesBody(m) == m # "HEAD"

\* The closure's nonlocals, as send reads and writes them.
SendState ==
    [raw_kwargs |-> raw_kwargs, response_started |-> response_started,
     response_complete |-> response_complete, template |-> template,
     context |-> context]

\* send(message) on the state s: the state it leaves and the failure it
\* raises ("none" when it returns).  A failure leaves what the statements
\* before it have written.
send(message, s, m) ==
    IF message.type = "http.response.start" THEN
        IF ~StartAllowed(s.response_started)
        THEN [s |-> s, exc |-> "AssertMultipleStart"]
        ELSE LET k1 == Put(Put(Put(s.raw_kwargs, "version", 11),
                               "status", message.status),
                           "reason", _get_reason_phrase(message.status))
             IN  IF ~HeadersDecodable(message.headers)
                 THEN [s |-> [s EXCEPT !.raw_kwargs = k1],
                       exc |-> "UnicodeDecodeError"]
                 ELSE LET hs == DecodeHeaders(message.headers)
                          k2 == Put(Put(Put(k1, "headers", hs),
                                        "preload_content", FALSE),
                                    "original_response",
                                    [msg |-> hs, closed |-> FALSE])
                      IN  [s |-> [s EXCEPT !.raw_kwargs = k2,
                                           !.response_started = TRUE],
                           exc |-> "none"]
    ELSE IF message.type = "http.response.body" THEN
        IF BodyRefusal(s.response_started, s.response_complete) # "none"
        THEN [s |-> s,
              exc |-> BodyRefusal(s.response_started, s.response_complete)]
        ELSE LET b == Get(message, "body", <<>>)
                 more_body == Get(message, "more_body", FALSE)
                 io1 == IF WritesBody(m)
                        THEN BytesIOWrite(s.raw_kwargs["body"], b)
                        ELSE s.raw_kwargs["body"]
                 io2 == IF ~more_body THEN BytesIOSeek0(io1) ELSE io1
             IN  [s |-> [s EXCEPT !.raw_kwargs = Put(s.raw_kwargs, "body", io2),
                                  !.response_complete =
                                      IF ~more_body THEN TRUE
                                      ELSE s.response_complete],
                  exc |-> "none"]
    ELSE IF message.type = "http.response.template" THEN
        [s |-> [s EXCEPT !.template = message.template,
                         !.context = message.context],
         exc |-> "none"]
    ELSE [s |-> s, exc |-> "none"]

\* The application awaits send(message).  A failure send raises is raised
\* inside the application, which lets it propagate or catches it and goes on.
Send(message, catches) ==
    LET r == send(message, SendState, method)
    IN  /\ appState = "running"
        /\ Len(sent) < MaxSends
        /\ raw_kwargs' = r.s.raw_kwargs
        /\ response_started' = r.s.response_started
        /\ response_complete' = r.s.response_complete
        /\ template' = r.s.template
        /\ context' = r.s.context
        /\ lastSend' = [type |-> message.type, exc |-> r.exc]
        /\ sent' = IF r.exc = "none" THEN Append(sent, message) ELSE sent
        /\ IF r.exc = "none" \/ catches
           THEN UNCHANGED <<appState, appExc>>
           ELSE appState' = "raised" /\ appExc' = r.exc
        /\ UNCHANGED <<method, raise_server_exceptions, body, request_complete,
                       recvPending, received, outcome>>
        /\ UNCHANGED nonHttpVars

AppSend == \E message \in AppMessages, catches \in BOOLEAN : Send(message, catches)

\* The application's coroutine returns.
AppReturn ==
    /\ appState = "running"
    /\ appState' = "returned"
    /\ UNCHANGED <<method, raise_server_exceptions, body, request_complete,
                   response_started, response_complete, raw_kwargs, template,
                   context, appExc, recvPending, received, sent, lastSend,
                   outcome>>
    /\ UNCHANGED nonHttpVars

\* The application raises a failure of its own.
AppRaise ==
    /\ appState = "running"
    /\ appState' = "raised"
    /\ appExc' = "AppError"
    /\ UNCHANGED <<method, raise_server_exceptions, body, request_complete,
                   response_started, response_complete, raw_kwargs, template,
                   context, recvPending, received, sent, lastSend, outcome>>
    /\ UNCHANGED nonHttpVars

\* --------------------------------------- after loop.run_until_complete

\* A handler that raises the application's own failures only.
ReraisesAppErrorOnly(raises, exc) == raises /\ exc = "AppError"

\* A handler that raises nothing.
ReraisesNever(raises, exc) == FALSE

\* except BaseException as exc: if self.raise_server_exceptions: raise exc
Reraises(raises, exc) == raises

\* A handler that substitutes the 500 for every swallowed exchange.
NeedsSyntheticAlways(raises, started) == ~raises

\* elif not response_started: the synthetic 500 replaces raw_kwargs
NeedsSynthetic(raises, started) == ~raises /\ ~started

Synthetic ==
    [version |-> 11, status |-> 500, reason |-> "Internal Server Error",
     headers |-> <<>>, preload_content |-> FALSE,
     original_response |-> [msg |-> <<>>, closed |-> FALSE],
     body |-> NewBytesIO]

\* The response built from raw_kwargs: what its reader sees.
BuildResponse(kw, t, c) ==
    [status_code |-> kw["status"], reason |-> kw["reason"],
     headers |-> kw["headers"], content |-> BytesIORead(kw["body"]),
     template |-> t, context |-> IF t # "None" THEN c ELSE "None"]

\* The rest of _ASGIAdapter.send once the application's coroutine is over.
Finish ==
    /\ appState \in {"returned", "raised"}
    /\ outcome.kind = "pending"
    /\ IF appState = "raised" /\ Reraises(raise_server_exceptions, appExc)
       THEN /\ outcome' = [kind |-> "raised", exc |-> appExc]
            /\ UNCHANGED raw_kwargs
       ELSE IF raise_server_exceptions /\ ~response_started
       THEN /\ outcome' = [kind |-> "raised", exc |-> "AssertNoResponse"]
            /\ UNCHANGED raw_kwargs
       ELSE /\ raw_kwargs' =
                  IF NeedsSynthetic(raise_server_exceptions, response_started)
                  THEN Synthetic ELSE raw_kwargs
            /\ outcome' = [kind |-> "response",
                           response |-> BuildResponse(raw_kwargs', template,
                                                      context)]
    /\ UNCHANGED <<method, raise_server_exceptions, body, request_complete,
                   response_started, response_complete, template, context,
                   appState, appExc, recvPending, received, sent, lastSend>>
    /\ UNCHANGED nonHttpVars

HttpNext == Receive \/ ReceiveResume \/ AppSend \/ AppReturn \/ AppRaise \/ Finish

\* ------------------------------------------------ WebSocketTestSession

\* The most messages the caller's send calls put to _receive_queue after
\* websocket.connect.
MaxCallerSends == 2
\* The most messages the application passes to its send.
MaxAppSends == 2

Connect == [type |-> "websocket.connect"]

\* What the caller sends: send_text, send_bytes and close(code).
CallerMessages ==
    {[type |-> "websocket.receive", text |-> "ping"],
     [type |-> "websocket.receive", bytes |-> <<1>>],
     [type |-> "websocket.disconnect", code |-> 1001]}

\* What the application passes to send.
WsAppMessages ==
    {[type |-> "websocket.accept"],
     [type |-> "websocket.accept", subprotocol |-> "chat"],
     [type |-> "websocket.close", code |-> 1008],
     [type |-> "websocket.close"],
     [type |-> "websocket.send", text |-> "ping"]}

\* The failure of the application as _run puts it to _send_queue.
AppFailure == [type |-> "BaseException", exc |-> "AppError"]

IsException(item) == item.type = "BaseException"

\* A failure raised to the caller; WebSocketDisconnect carries a close code.
Failure(kind, code) == [kind |-> kind, code |-> code]

NoFailure == Failure("none", 0)

WebSocketDisconnect(code) == Failure("WebSocketDisconnect", code)

\* A _raise_on_close that drops the code of the message.
_raise_on_close_1000(message) ==
    IF message.type = "websocket.close" THEN WebSocketDisconnect(1000)
    ELSE NoFailure

\* _raise_on_close: the failure raised, NoFailure when it returns.
_raise_on_close(message) ==
    IF message.type = "websocket.close"
    THEN WebSocketDisconnect(Get(message, "code", 1000))
    ELSE NoFailure

\* An __init__ that starts the thread first.
CtorOrderThreadFirst == <<"start_thread", "send_connect", "receive">>

\* __init__ up to its first statement that can block: the statements in
\* their order.
CtorOrder == <<"send_connect", "start_thread", "receive">>

CtorAt(step) ==
    /\ wsPc = "init"
    /\ ctorStep <= Len(CtorOrder)
    /\ CtorOrder[ctorStep] = step

WsInit ==
    /\ accepted_subprotocol = "None"
    /\ _receive_queue = <<>>
    /\ _send_queue = <<>>
    /\ threadState = "unstarted"
    /\ ctorStep = 1
    /\ wsPc = "init"
    /\ wsExc = NoFailure
    /\ enqueued = <<>>
    /\ appReceived = <<>>
    /\ deposited = <<>>
    /\ callerReceived = <<>>

\* self.send({"type": "websocket.connect"})
CtorSendConnect ==
    /\ CtorAt("send_connect")
    /\ _receive_queue' = Append(_receive_queue, Connect)
    /\ enqueued' = Append(enqueued, Connect)
    /\ ctorStep' = ctorStep + 1
    /\ UNCHANGED <<accepted_subprotocol, _send_queue, threadState, wsPc, wsExc,
                   appReceived, deposited, callerReceived>>
    /\ UNCHANGED nonWsVars

\* self._thread.start()
CtorStartThread ==
    /\ CtorAt("start_thread")
    /\ threadState = "unstarted"
    /\ threadState' = "running"
    /\ ctorStep' = ctorStep + 1
    /\ UNCHANGED <<accepted_subprotocol, _receive_queue, _send_queue, wsPc,
                   wsExc, enqueued, appReceived, deposited, callerReceived>>
    /\ UNCHANGED nonWsVars

\* message = self.receive(); self._raise_on_close(message);
\* self.accepted_subprotocol = message.get("subprotocol", None)
CtorReceive ==
    /\ CtorAt("receive")
    /\ _send_queue # <<>>
    /\ LET message == Head(_send_queue)
       IN  /\ _send_queue' = Tail(_send_queue)
           /\ callerReceived' = Append(callerReceived, message)
           /\ ctorStep' = ctorStep + 1
           /\ IF IsException(message)
              THEN /\ wsPc' = "failed"
                   /\ wsExc' = Failure(message.exc, 0)
                   /\ UNCHANGED accepted_subprotocol
              ELSE IF _raise_on_close(message) # NoFailure
              THEN /\ wsPc' = "failed"
                   /\ wsExc' = _raise_on_close(message)
                   /\ UNCHANGED accepted_subprotocol
              ELSE /\ wsPc' = "open"
                   /\ accepted_subprotocol' = Get(message, "subprotocol", "None")
                   /\ UNCHANGED wsExc
    /\ UNCHANGED <<_receive_queue, threadState, enqueued, appReceived, deposited>>
    /\ UNCHANGED nonWsVars

\* _run: the application starts to await receive().
AsgiReceiveCall ==
    /\ threadState = "running"
    /\ threadState' = "polling"
    /\ UNCHANGED <<accepted_subprotocol, _receive_queue, _send_queue, ctorStep,
                   wsPc, wsExc, enqueued, appReceived, deposited,
                   callerReceived>>
    /\ UNCHANGED nonWsVars

\* An _asgi_receive without the while loop on the empty queue.
EmptyNeverPolled(q) == FALSE

\* self._receive_queue.empty(), the test of the while loop of _asgi_receive.
Empty(q) == q = <<>>

\* _asgi_receive: the while test finds the queue not empty and the loop ends
\* (on an empty queue it sleeps and tests again, which changes nothing).
AsgiReceivePoll ==
    /\ threadState = "polling"
    /\ ~Empty(_receive_queue)
    /\ threadState' = "getting"
    /\ UNCHANGED <<accepted_subprotocol, _receive_queue, _send_queue, ctorStep,
                   wsPc, wsExc, enqueued, appReceived, deposited,
                   callerReceived>>
    /\ UNCHANGED nonWsVars

\* _asgi_receive: return self._receive_queue.get(), which blocks the thread
\* while the queue is empty.
AsgiReceiveGet ==
    /\ threadState = "getting"
    /\ _receive_queue # <<>>
    /\ appReceived' = Append(appReceived, Head(_receive_queue))
    /\ _receive_queue' = Tail(_receive_queue)
    /\ threadState' = "running"
    /\ UNCHANGED <<accepted_subprotocol, _send_queue, ctorStep, wsPc, wsExc,
                   enqueued, deposited, callerReceived>>
    /\ UNCHANGED nonWsVars

\* _asgi_send
AsgiSend ==
    /\ threadState = "running"
    /\ Len(deposited) < MaxAppSends
    /\ \E message \in WsAppMessages :
          /\ _send_queue' = Append(_send_queue, message)
          /\ deposited' = Append(deposited, message)
    /\ UNCHANGED <<accepted_subprotocol, _receive_queue, threadState, ctorStep,
                   wsPc, wsExc, enqueued, appReceived, callerReceived>>
    /\ UNCHANGED nonWsVars

\* _run: the application returns and the thread ends.
WsAppReturn ==
    /\ threadState = "running"
    /\ threadState' = "done"
    /\ UNCHANGED <<accepted_subprotocol, _receive_queue, _send_queue, ctorStep,
                   wsPc, wsExc, enqueued, appReceived, deposited,
                   callerReceived>>
    /\ UNCHANGED nonWsVars

\* _run: the application raises; except BaseException as exc:
\* self._send_queue.put(exc), and the thread ends.
WsAppRaise ==
    /\ threadState = "running"
    /\ threadState' = "done"
    /\ _send_queue' = Append(_send_queue, AppFailure)
    /\ deposited' = Append(deposited, AppFailure)
    /\ UNCHANGED <<accepted_subprotocol, _receive_queue, ctorStep, wsPc, wsExc,
                   enqueued, appReceived, callerReceived>>
    /\ UNCHANGED nonWsVars

\* send(message), and send_text, send_bytes, close over it.
CallerSend ==
    /\ wsPc = "open"
    /\ Len(enqueued) < 1 + MaxCallerSends
    /\ \E message \in CallerMessages :
          /\ _receive_queue' = Append(_receive_queue, message)
          /\ enqueued' = Append(enqueued, message)
    /\ UNCHANGED <<accepted_subprotocol, _send_queue, threadState, ctorStep,
                   wsPc, wsExc, appReceived, deposited, callerReceived>>
    /\ UNCHANGED nonWsVars

\* receive(): a blocking get; an exception value is raised to the caller.
CallerReceive ==
    /\ wsPc = "open"
    /\ _send_queue # <<>>
    /\ LET message == Head(_send_queue)
       IN  /\ _send_queue' = Tail(_send_queue)
           /\ callerReceived' = Append(callerReceived, message)
           /\ wsExc' = IF IsException(message) THEN Failure(message.exc, 0)
                       ELSE wsExc
    /\ UNCHANGED <<accepted_subprotocol, _receive_queue, threadState, ctorStep,
                   wsPc, enqueued, appReceived, deposited>>
    /\ UNCHANGED nonWsVars

\* __exit__: self.close(1000)
ExitClose ==
    /\ wsPc = "open"
    /\ wsPc' = "joining"
    /\ LET message == [type |-> "websocket.disconnect", code |-> 1000]
       IN  /\ _receive_queue' = Append(_receive_queue, message)
           /\ enqueued' = Append(enqueued, message)
    /\ UNCHANGED <<accepted_subprotocol, _send_queue, threadState, ctorStep,
                   wsExc, appReceived, deposited, callerReceived>>
    /\ UNCHANGED nonWsVars

\* A join that returns while the thread still runs.
JoinedAtOnce(state) == TRUE

\* self._thread.join() returns once the thread has terminated.
Joined(state) == state = "done"

\* __exit__: self._thread.join()
ExitJoin ==
    /\ wsPc = "joining"
    /\ Joined(threadState)
    /\ wsPc' = "draining"
    /\ UNCHANGED <<accepted_subprotocol, _receive_queue, _send_queue,
                   threadState, ctorStep, wsExc, enqueued, appReceived,
                   deposited, callerReceived>>
    /\ UNCHANGED nonWsVars

\* __exit__: one pass of the while loop over _send_queue.
ExitDrain ==
    /\ wsPc = "draining"
    /\ IF _send_queue = <<>>
       THEN /\ wsPc' = "exited"
            /\ UNCHANGED <<_send_queue, callerReceived, wsExc>>
       ELSE LET message == Head(_send_queue)
            IN  /\ _send_queue' = Tail(_send_queue)
                /\ callerReceived' = Append(callerReceived, message)
                /\ IF IsException(message)
                   THEN wsPc' = "exit_raised" /\ wsExc' = Failure(message.exc, 0)
                   ELSE UNCHANGED <<wsPc, wsExc>>
    /\ UNCHANGED <<accepted_subprotocol, _receive_queue, threadState, ctorStep,
                   enqueued, appReceived, deposited>>
    /\ UNCHANGED nonWsVars

WsNext ==
    \/ CtorSendConnect \/ CtorStartThread \/ CtorReceive
    \/ AsgiReceiveCall \/ AsgiReceivePoll \/ AsgiReceiveGet \/ AsgiSend
    \/ WsAppReturn \/ WsAppRaise
    \/ CallerSend \/ CallerReceive
    \/ ExitClose \/ ExitJoin \/ ExitDrain

\* ------------------------------------------------- the lifespan handshake

\* The most messages the application sends on the lifespan channel.
MaxLifespanSends == 3

\* What the application may send during the handshake.
LifespanMessages ==
    { [type |-> "lifespan.startup.complete"],
      [type |-> "lifespan.startup.failed"],
      [type |-> "lifespan.shutdown.complete"] }

\* None, which lifespan() puts to send_queue when the application has ended.
Sentinel == [type |-> "None"]

\* Before __enter__.
LifespanInit ==
    /\ send_queue = <<>>
    /\ receive_queue = <<>>
    /\ task = "none"
    /\ lifespanPc = "new"
    /\ lifespanExc = NoFailure
    /\ lifespanPut = <<>>
    /\ lifespanGot = <<>>
    /\ lifespanReceived = <<>>

\* The event loop runs only inside a run_until_complete of the caller.
LoopRuns == lifespanPc \in {"wait_startup", "startup_failed", "wait_shutdown"}

\* __enter__ up to the first await of wait_startup that suspends: the
\* queues, the task, and lifespan.startup put to receive_queue.
Enter ==
    /\ lifespanPc = "new"
    /\ send_queue' = <<>>
    /\ receive_queue' = <<[type |-> "lifespan.startup"]>>
    /\ task' = "pending"
    /\ lifespanPc' = "wait_startup"
    /\ UNCHANGED <<lifespanExc, lifespanPut, lifespanGot, lifespanReceived>>
    /\ UNCHANGED nonLifespanVars

\* The application awaits receive, which is receive_queue.get, and a
\* message is there.
LifespanReceive ==
    /\ LoopRuns
    /\ task = "pending"
    /\ receive_queue # <<>>
    /\ lifespanReceived' = Append(lifespanReceived, Head(receive_queue))
    /\ receive_queue' = Tail(receive_queue)
    /\ UNCHANGED <<send_queue, task, lifespanPc, lifespanExc, lifespanPut,
                   lifespanGot>>
    /\ UNCHANGED nonLifespanVars

\* The application awaits send, which is send_queue.put.
LifespanSend(message) ==
    /\ LoopRuns
    /\ task = "pending"
    /\ Len(lifespanPut) < MaxLifespanSends
    /\ send_queue' = Append(send_queue, message)
    /\ lifespanPut' = Append(lifespanPut, message)
    /\ UNCHANGED <<receive_queue, task, lifespanPc, lifespanExc, lifespanGot,
                   lifespanReceived>>
    /\ UNCHANGED nonLifespanVars

\* A lifespan() whose finally clause puts nothing.
FinallyNothing(q) == q

\* lifespan(): finally: await self.send_queue.put(None)
Finally(q) == Append(q, Sentinel)

\* The application returns, or raises; the put of lifespan()'s finally clause
\* does not suspend, so the task is done in the same step of the loop.
LifespanEnd(how) ==
    /\ LoopRuns
    /\ task = "pending"
    /\ task' = how
    /\ send_queue' = Finally(send_queue)
    /\ lifespanPut' = Finally(lifespanPut)
    /\ UNCHANGED <<receive_queue, lifespanPc, lifespanExc, lifespanGot,
                   lifespanReceived>>
    /\ UNCHANGED nonLifespanVars

LifespanReturn == LifespanEnd("returned")

LifespanRaise == LifespanEnd("raised")

\* A task.result() that never raises.
TaskResultNone(t) == NoFailure

\* self.task.result(): the failure it raises, NoFailure when it returns.
TaskResult(t) ==
    CASE t = "raised" -> Failure("AppError", 0)
      [] t = "pending" -> Failure("InvalidStateError", 0)
      [] OTHER -> NoFailure

\* message["type"], evaluated by the assert statements: the failure it or
\* the assertion raises for the types given.
AssertType(message, types) ==
    IF message = Sentinel THEN Failure("TypeError", 0)
    ELSE IF message.type \notin types THEN Failure("AssertionError", 0)
    ELSE NoFailure

\* `if message is None: self.task.result()` and then the assertion.
WaitFailure(message, types) ==
    IF message = Sentinel /\ TaskResult(task) # NoFailure
    THEN TaskResult(task)
    ELSE AssertType(message, types)

\* wait_startup: the first message off send_queue.
WaitStartup ==
    /\ lifespanPc = "wait_startup"
    /\ send_queue # <<>>
    /\ LET message == Head(send_queue)
           failure == WaitFailure(message, {"lifespan.startup.complete",
                                            "lifespan.startup.failed"})
       IN  /\ send_queue' = Tail(send_queue)
           /\ lifespanGot' = Append(lifespanGot,
                                    [at |-> "wait_startup", item |-> message])
           /\ lifespanExc' = failure
           /\ lifespanPc' =
                 IF failure # NoFailure THEN "enter_raised"
                 ELSE IF message.type = "lifespan.startup.failed"
                 THEN "startup_failed"
                 ELSE "entered"
    /\ UNCHANGED <<receive_queue, task, lifespanPut, lifespanReceived>>
    /\ UNCHANGED nonLifespanVars

\* wait_startup after lifespan.startup.failed: the next message off
\* send_queue, and task.result() when it is None.
WaitStartupFailed ==
    /\ lifespanPc = "startup_failed"
    /\ send_queue # <<>>
    /\ LET message == Head(send_queue)
           failure == IF message = Sentinel THEN TaskResult(task)
                      ELSE NoFailure
       IN  /\ send_queue' = Tail(send_queue)
           /\ lifespanGot' = Append(lifespanGot,
                                    [at |-> "startup_failed", item |-> message])
           /\ lifespanExc' = failure
           /\ lifespanPc' = IF failure # NoFailure THEN "enter_raised"
                            ELSE "entered"
    /\ UNCHANGED <<receive_queue, task, lifespanPut, lifespanReceived>>
    /\ UNCHANGED nonLifespanVars

\* __exit__ up to the first await of wait_shutdown that suspends.
Exit ==
    /\ lifespanPc = "entered"
    /\ receive_queue' = Append(receive_queue, [type |-> "lifespan.shutdown"])
    /\ lifespanPc' = "wait_shutdown"
    /\ UNCHANGED <<send_queue, task, lifespanExc, lifespanPut, lifespanGot,
                   lifespanReceived>>
    /\ UNCHANGED nonLifespanVars

\* wait_shutdown: the message off send_queue; __exit__ returns after it.
WaitShutdown ==
    /\ lifespanPc = "wait_shutdown"
    /\ send_queue # <<>>
    /\ LET message == Head(send_queue)
           failure == WaitFailure(message, {"lifespan.shutdown.complete"})
       IN  /\ send_queue' = Tail(send_queue)
           /\ lifespanGot' = Append(lifespanGot,
                                    [at |-> "wait_shutdown", item |-> message])
           /\ lifespanExc' = failure
           /\ lifespanPc' = IF failure # NoFailure THEN "exit_raised"
                            ELSE "exited"
    /\ UNCHANGED <<receive_queue, task, lifespanPut, lifespanReceived>>
    /\ UNCHANGED nonLifespanVars

LifespanNext ==
    \/ Enter \/ WaitStartup \/ WaitStartupFailed \/ Exit \/ WaitShutdown
    \/ LifespanReceive
    \/ \E message \in LifespanMessages : LifespanSend(message)
    \/ LifespanReturn \/ LifespanRaise

\* ---------------------------------------------------- websocket_connect

\* "ws://testserver", the base of the urljoin of websocket_connect.
WsBase == [scheme |-> "ws", netloc |-> "testserver", path |-> ""]

\* The URLs given to websocket_connect: a path, and absolute URLs.
ConnectUrls ==
    {[scheme |-> "", netloc |-> "", path |-> "/ws"]}
    \cup {[scheme |-> sch, netloc |-> "testserver", path |-> "/ws"] :
             sch \in {"ws", "wss", "http", "https"}}

\* urljoin(base, u): a URL with a scheme of its own is kept, a path
\* takes the scheme and host of the base.
urljoin(base, u) ==
    IF u.scheme # "" THEN u
    ELSE [scheme |-> base.scheme, netloc |-> base.netloc, path |-> u.path]

\* No websocket_connect is under way.
ConnectIdle ==
    /\ url = WsBase
    /\ escape = "none"
    /\ connected = "none"

\* websocket_connect(u): the URL the request goes to.
ConnectInit ==
    /\ url \in {urljoin(WsBase, u) : u \in ConnectUrls}
    /\ escape = "none"
    /\ connected = "none"

\* A dispatch that takes only ws for a duplex session.
IsUpgradeWsOnly(scheme) == scheme = "ws"

\* _ASGIAdapter.send: if scheme in {"ws", "wss"}
IsUpgrade(scheme) == scheme \in {"ws", "wss"}

\* _ASGIAdapter.send on a ws or wss URL: WebSocketTestSession(self.app,
\* scope) runs its __init__, beside the thread it starts.
Construct ==
    /\ IsUpgrade(url.scheme)
    /\ escape = "none"
    /\ \/ CtorSendConnect \/ CtorStartThread \/ CtorReceive
       \/ AsgiReceiveCall \/ AsgiReceivePoll \/ AsgiReceiveGet \/ AsgiSend
       \/ WsAppReturn \/ WsAppRaise

\* _ASGIAdapter.send on any other URL: the HTTP exchange.
Exchange ==
    /\ ~IsUpgrade(url.scheme)
    /\ escape = "none"
    /\ HttpNext

\* _ASGIAdapter.send is left: by raise _Upgrade(session) once the session
\* is constructed, by the failure of its construction, by the return of
\* the response or by the failure of the exchange.
Leave ==
    /\ escape = "none"
    /\ IF IsUpgrade(url.scheme)
       THEN /\ wsPc \in {"open", "failed"}
            /\ escape' = IF wsPc = "open" THEN "_Upgrade" ELSE "raised"
       ELSE /\ outcome.kind # "pending"
            /\ escape' = outcome.kind
    /\ UNCHANGED <<url, connected>>
    /\ UNCHANGED <<httpVars, wsVars, lifespanVars>>

\* websocket_connect: except _Upgrade gives the session, else raises
\* RuntimeError("Expected WebSocket upgrade"); any other failure goes on to
\* the caller.
ConnectEnd ==
    /\ escape # "none"
    /\ connected = "none"
    /\ connected' = CASE escape = "_Upgrade" -> "session"
                      [] escape = "response" -> "RuntimeError"
                      [] OTHER -> "raised"
    /\ UNCHANGED <<url, escape>>
    /\ UNCHANGED <<httpVars, wsVars, lifespanVars>>

ConnectNext == Construct \/ Exchange \/ Leave \/ ConnectEnd

\* ------------------------------------------------------- specifications

vars == <<httpVars, wsVars, lifespanVars, connectVars>>

\* No exchange is under way: the variables of the HTTP exchange at rest.
HttpIdle == HttpStart({"GET"}, {TRUE}, {NoBody}) 

\* An HTTP exchange for every method and option, on a request without a
\* body or with a bytes body.
Init ==
    /\ HttpStart(Methods, BOOLEAN,
                 {b \in RequestBodies : b.kind \in {"None", "bytes"}})
    /\ WsInit
    /\ LifespanInit
    /\ ConnectIdle

Next == HttpNext

Spec == Init /\ [][Next]_vars

\* An HTTP exchange for every request body.
InitRequest ==
    /\ HttpStart({"GET"}, {TRUE}, RequestBodies)
    /\ WsInit
    /\ LifespanInit
    /\ ConnectIdle

SpecRequest == InitRequest /\ [][Next]_vars

\* A duplex session.
InitWs == WsInit /\ HttpIdle /\ LifespanInit /\ ConnectIdle

SpecWs == InitWs /\ [][WsNext]_vars

\* The duplex session when the caller's thread, inside __exit__, keeps
\* running: join returns once the thread is done and the loop over
\* _send_queue goes on.
SpecWsFair == SpecWs /\ WF_vars(ExitJoin) /\ WF_vars(ExitDrain)

\* The lifespan handshake of a client used as a context manager.
InitLifespan == LifespanInit /\ HttpIdle /\ WsInit /\ ConnectIdle

SpecLifespan == InitLifespan /\ [][LifespanNext]_vars

\* A call of websocket_connect.
InitConnect ==
    /\ ConnectInit
    /\ HttpStart({"GET"}, BOOLEAN, {NoBody})
    /\ WsInit
    /\ LifespanInit

SpecConnect == InitConnect /\ [][ConnectNext]_vars

\* ------------------------------------------------------------- properties

IsStart(m) == m.type = "http.response.start"

IsBody(m) == m.type = "http.response.body"

IsFinalBody(m) == IsBody(m) /\ ~Get(m, "more_body", FALSE)

\* The accepted http.response.start messages among the first n accepted.
StartsBefore(n) == {j \in 1..n : IsStart(sent[j])}

AssertionFailures ==
    {"AssertMultipleStart", "AssertBodyWithoutStart", "AssertBodyAfterComplete"}

\* C1: an http.response.body is accepted only after exactly one accepted
\* http.response.start; a start sent after an accepted start is rejected
\* with the "multiple start" assertion failure and never accepted; a body
\* sent with no accepted start is rejected with the "without start"
\* assertion failure; and response_complete implies response_started.
C1_StartPrecedesBody ==
    /\ \A i \in 1..Len(sent) :
          IsBody(sent[i]) => Cardinality(StartsBefore(i - 1)) = 1
    /\ Cardinality(StartsBefore(Len(sent))) <= 1
    /\ (lastSend.type = "http.response.start" /\ lastSend.exc # "none"
            /\ StartsBefore(Len(sent)) # {})
          => lastSend.exc = "AssertMultipleStart"
    /\ (lastSend.type = "http.response.body" /\ StartsBefore(Len(sent)) = {})
          => lastSend.exc = "AssertBodyWithoutStart"
    /\ response_started = (StartsBefore(Len(sent)) # {})
    /\ response_complete => response_started

\* C1's case: after an accepted start and an accepted body, a second start
\* has just been rejected.
C1_Witness ==
    /\ lastSend = [type |-> "http.response.start", exc |-> "AssertMultipleStart"]
    /\ \E i \in 1..Len(sent) : IsBody(sent[i])

\* C2 as stated: whenever the application violated the protocol (an
\* assertion failure of send left it, or it ended with no start accepted),
\* the request call returns no response, whatever raise_server_exceptions.
C2_Original ==
    outcome.kind = "response"
        => ~(appExc \in AssertionFailures \/ ~response_started)

\* C2 as amended: with raise_server_exceptions true, an assertion failure
\* of send that leaves the application is raised to the caller of the
\* request, an application that ends with no start accepted makes the call
\* fail, and no response is returned in either case; with it false the
\* failure is swallowed and a response is returned: the collected one when
\* a start was accepted, the synthetic 500 otherwise.
C2_ViolationPolicy ==
    (outcome.kind # "pending"
        /\ (appExc \in AssertionFailures \/ ~response_started))
    => IF raise_server_exceptions
       THEN /\ outcome.kind = "raised"
            /\ appExc \in AssertionFailures => outcome.exc = appExc
            /\ appState = "returned" => outcome.exc = "AssertNoResponse"
       ELSE /\ outcome.kind = "response"
            /\ outcome.response.status_code =
                  IF response_started THEN sent[CHOOSE j \in StartsBefore(Len(sent)) : TRUE].status
                  ELSE 500

\* C2's case: the request call has failed with the assertion failure of a
\* body sent after the response was complete.
C2_Witness ==
    /\ outcome = [kind |-> "raised", exc |-> "AssertBodyAfterComplete"]
    /\ raise_server_exceptions

\* What send has collected for the response.
Collected == <<raw_kwargs, response_started, response_complete, template, context>>

\* C3 as stated: once the response is complete, a send of any message
\* (start, body or template) is rejected and leaves the collected response
\* (raw_kwargs, template, context) unchanged.
C3_Original ==
    [][\A message \in AppMessages, catches \in BOOLEAN :
          (response_complete /\ Send(message, catches))
              => (lastSend'.exc # "none" /\ UNCHANGED Collected)]_vars

\* C3 as amended: once the response is complete, a send of
\* http.response.start or http.response.body is rejected with an assertion
\* failure and leaves the collected response unchanged, while a send of
\* http.response.template is still accepted and overwrites template and
\* context only.
C3_AfterCompletion ==
    [][\A message \in AppMessages, catches \in BOOLEAN :
          (response_complete /\ Send(message, catches))
              => IF message.type = "http.response.template"
                 THEN /\ lastSend'.exc = "none"
                      /\ template' = message.template
                      /\ context' = message.context
                      /\ UNCHANGED <<raw_kwargs, response_started,
                                     response_complete>>
                 ELSE /\ lastSend'.exc =
                            (IF IsStart(message) THEN "AssertMultipleStart"
                             ELSE "AssertBodyAfterComplete")
                      /\ UNCHANGED Collected]_vars

\* C3's case: a body sent after the response was complete has just been
\* rejected.
C3_Witness ==
    /\ response_complete
    /\ lastSend = [type |-> "http.response.body",
                   exc |-> "AssertBodyAfterComplete"]

RECURSIVE ConcatBodies(_)
\* b1 + ... + bk of a sequence of http.response.body messages.
ConcatBodies(ms) ==
    IF ms = <<>> THEN <<>>
    ELSE Get(Head(ms), "body", <<>>) \o ConcatBodies(Tail(ms))

\* The accepted messages are one start, then body chunks of which exactly
\* the last has more_body false.
StartThenChunks ==
    /\ Len(sent) >= 2
    /\ IsStart(sent[1])
    /\ \A i \in 2..Len(sent) : IsBody(sent[i])
    /\ \A i \in 2..Len(sent) : IsFinalBody(sent[i]) <=> i = Len(sent)

\* The text headers hs are the byte headers H, pair by pair in H's order.
SameHeaders(hs, H) ==
    /\ Len(hs) = Len(H)
    /\ \A i \in 1..Len(H) :
          /\ EncodeUtf8(hs[i][1]) = H[i][1]
          /\ EncodeUtf8(hs[i][2]) = H[i][2]

\* C4: for a method other than HEAD, when the messages send accepted are
\* start(S, H) and then chunks b1..bk with more_body false on bk only, and
\* the application then returned, the response has status S, the headers
\* of H in H's order and the body b1 + ... + bk.
C4_ResponseIsWhatWasSent ==
    (method # "HEAD" /\ StartThenChunks /\ appState = "returned"
        /\ outcome.kind # "pending")
    => /\ outcome.kind = "response"
       /\ outcome.response.status_code = sent[1].status
       /\ SameHeaders(outcome.response.headers, sent[1].headers)
       /\ outcome.response.content = ConcatBodies(Tail(sent))

\* C4's case: a response was returned for a start and two chunks, the
\* first with more_body true.
C4_Witness ==
    /\ method = "GET"
    /\ outcome.kind = "response"
    /\ StartThenChunks
    /\ Len(sent) = 3
    /\ outcome.response.content = <<97, 98, 99>>
    /\ outcome.response.headers = <<<<(<<98>>), (<<233>>)>>, <<(<<97>>), (<<49>>)>>>>

\* C5: for a HEAD request the body of the response is empty and nothing is
\* written to the body buffer, whatever body messages were accepted, and
\* response_complete is set exactly when a body message with more_body
\* false has been accepted.
C5_HeadBodyEmpty ==
    method = "HEAD"
    => /\ raw_kwargs["body"].buf = <<>>
       /\ outcome.kind = "response" => outcome.response.content = <<>>
       /\ response_complete <=> \E i \in 1..Len(sent) : IsFinalBody(sent[i])

\* C5's case: a HEAD response was returned after non-empty body chunks
\* were accepted, the last of them completing the response.
C5_Witness ==
    /\ method = "HEAD"
    /\ outcome.kind = "response"
    /\ response_complete
    /\ \E i \in 1..Len(sent) : IsBody(sent[i]) /\ Get(sent[i], "body", <<>>) # <<>>
    /\ \E i \in 1..Len(sent) : IsBody(sent[i]) /\ ~IsFinalBody(sent[i])

\* The http.request events among those receive has returned, in order.
Requests == SelectSeq(received, LAMBDA e : e.type = "http.request")

\* C6: for a request with no body, the first event receive returns is one
\* http.request with an empty body and more_body not set, and every later
\* event is http.disconnect.
C6_NoBodyEvents ==
    body.kind = "None"
    => \A i \in 1..Len(received) :
          IF i = 1
          THEN /\ received[i].type = "http.request"
               /\ received[i].body = <<>>
               /\ ~Get(received[i], "more_body", FALSE)
          ELSE received[i] = Disconnect

\* C6's case: the application of a request with no body has received
\* three times.
C6_Witness ==
    /\ body.kind = "None"
    /\ Len(received) = 3
    /\ received[3] = Disconnect

\* The bytes of the chunk c as the producer gave it: a str chunk is the
\* text the bytes decode to.
IsChunk(bytes, c) ==
    IF c.t = "str" THEN DecodeUtf8(bytes) = [ok |-> TRUE, v |-> c.v]
    ELSE bytes = c.v

\* C7 as stated: once a producer of chunks c1..cn (n >= 1) is exhausted,
\* the application has observed exactly n http.request events, the i-th
\* with the bytes of ci, with more_body true on all but the n-th.
C7_Original ==
    (body.kind = "generator" /\ Len(body.chunks) >= 1 /\ request_complete)
    => /\ Len(Requests) = Len(body.chunks)
       /\ \A i \in 1..Len(Requests) :
             /\ IsChunk(Requests[i].body, body.chunks[i])
             /\ Get(Requests[i], "more_body", FALSE) = (i < Len(body.chunks))

\* C7 as amended: for a producer of chunks c1..cn the application observes
\* n + 1 http.request events: the i-th (i <= n) has the bytes of ci (a str
\* chunk encoded as UTF-8) and more_body true, and the last has an empty
\* body and more_body not set; the request is complete exactly when that
\* last event has been returned.
C7_ProducerEvents ==
    body.kind = "generator"
    => /\ Len(Requests) <= Len(body.chunks) + 1
       /\ request_complete <=> Len(Requests) = Len(body.chunks) + 1
       /\ \A i \in 1..Len(Requests) :
             IF i <= Len(body.chunks)
             THEN /\ IsChunk(Requests[i].body, body.chunks[i])
                  /\ Get(Requests[i], "more_body", FALSE)
             ELSE /\ Requests[i].body = <<>>
                  /\ ~Get(Requests[i], "more_body", FALSE)
       /\ \A i \in 1..Len(received) :
             received[i] = Disconnect => i > Len(body.chunks) + 1

\* C7's case: a producer of two different chunks, a str and a bytes one,
\* is exhausted and the application has received again.
C7_Witness ==
    /\ body.kind = "generator"
    /\ Len(body.chunks) = 2
    /\ body.chunks[1].t = "str" /\ body.chunks[2].t = "bytes"
    /\ request_complete
    /\ Len(Requests) = 3
    /\ Len(received) = 4

\* The status and headers of the accepted start are those of the response.
StartIsOf(response) ==
    \E j \in StartsBefore(Len(sent)) :
        /\ response.status_code = sent[j].status
        /\ SameHeaders(response.headers, sent[j].headers)

\* C8 as stated: with raise_server_exceptions false, whenever a failure
\* leaves the application the request call returns a response with status
\* 500, no headers and an empty body.
C8_Original ==
    (~raise_server_exceptions /\ appState = "raised" /\ outcome.kind # "pending")
    => /\ outcome.kind = "response"
       /\ outcome.response.status_code = 500
       /\ outcome.response.headers = <<>>
       /\ outcome.response.content = <<>>

\* C8 as amended: with raise_server_exceptions false, whenever a failure
\* leaves the application it is swallowed and the request call returns a
\* response: the synthetic one (status 500, no headers, empty body) when no
\* start had been accepted, and otherwise the response collected so far,
\* with the status and headers of the accepted start.
C8_SwallowedFailure ==
    (~raise_server_exceptions /\ appState = "raised" /\ outcome.kind # "pending")
    => /\ outcome.kind = "response"
       /\ IF response_started
          THEN StartIsOf(outcome.response)
          ELSE /\ outcome.response.status_code = 500
               /\ outcome.response.reason = "Internal Server Error"
               /\ outcome.response.headers = <<>>
               /\ outcome.response.content = <<>>

\* C8's case: the application failed after its start was accepted and the
\* response returned is the one it started.
C8_Witness ==
    /\ ~raise_server_exceptions
    /\ appState = "raised" /\ appExc = "AppError"
    /\ response_started
    /\ outcome.kind = "response"
    /\ outcome.response.status_code = 404

\* C9: with raise_server_exceptions true, a failure that leaves the
\* application is raised to the caller of the request, started or completed
\* response or not; an application that returns with no start accepted
\* makes the call fail; and a response is returned only when the
\* application returned after a start was accepted.
C9_RaiseServerExceptions ==
    raise_server_exceptions
    => /\ (appState = "raised" /\ outcome.kind # "pending")
             => outcome = [kind |-> "raised", exc |-> appExc]
       /\ (appState = "returned" /\ ~response_started /\ outcome.kind # "pending")
             => outcome = [kind |-> "raised", exc |-> "AssertNoResponse"]
       /\ outcome.kind = "response"
             => (appState = "returned" /\ StartsBefore(Len(sent)) # {})

\* C9's case: the application's own failure was raised to the caller after
\* the response was complete.
C9_Witness ==
    /\ raise_server_exceptions
    /\ response_complete
    /\ outcome = [kind |-> "raised", exc |-> "AppError"]

\* C10: whenever the application's thread has been started,
\* websocket.connect is the first message ever put to _receive_queue, and
\* the first message _asgi_receive returns is websocket.connect.
C10_ConnectFirst ==
    /\ threadState # "unstarted"
          => (enqueued # <<>> /\ enqueued[1] = Connect)
    /\ appReceived # <<>> => appReceived[1] = Connect

\* C10's case: the caller has sent after construction and the application
\* has received twice.
C10_Witness ==
    /\ Len(appReceived) = 2
    /\ appReceived[1] = Connect
    /\ Len(enqueued) = 3

\* C11: when the first item the application deposits is websocket.close,
\* the construction of the session can only fail, and fails with
\* WebSocketDisconnect carrying the code of the message (1000 when it has
\* none); the caller puts nothing but websocket.connect to _receive_queue,
\* and accepted_subprotocol stays unset.
C11_CloseFailsConstruction ==
    (deposited # <<>> /\ deposited[1].type = "websocket.close")
    => /\ wsPc \in {"init", "failed"}
       /\ callerReceived # <<>>
             => /\ wsPc = "failed"
                /\ wsExc = WebSocketDisconnect(Get(deposited[1], "code", 1000))
       /\ Len(enqueued) <= 1
       /\ accepted_subprotocol = "None"

\* C11's case: the construction has failed with the code 1008 of the
\* application's close.
C11_Witness ==
    /\ deposited # <<>>
    /\ deposited[1] = [type |-> "websocket.close", code |-> 1008]
    /\ wsPc = "failed"
    /\ wsExc = WebSocketDisconnect(1008)

\* C12: a failure of the application is the last item deposited to
\* _send_queue; the receive that takes it off raises it to the caller; and
\* once the caller is done with the session (its construction failed, or
\* its teardown ended) a deposited failure has been raised to the caller.
C12_FailureNeverLost ==
    /\ \A i \in 1..Len(deposited) :
          IsException(deposited[i]) => i = Len(deposited)
    /\ (callerReceived # <<>> /\ IsException(callerReceived[Len(callerReceived)]))
          => wsExc = Failure("AppError", 0)
    /\ (wsPc \in {"failed", "exited", "exit_raised"} /\ threadState = "done"
            /\ \E i \in 1..Len(deposited) : IsException(deposited[i]))
          => wsExc = Failure("AppError", 0)

\* The websocket.disconnect that close(1000) puts to _receive_queue.
Disconnect1000 == [type |-> "websocket.disconnect", code |-> 1000]

\* C18: __exit__ first puts websocket.disconnect with code 1000 to
\* _receive_queue, as the last item the caller ever puts; it looks at
\* _send_queue only once the thread is done, so while nothing more can be
\* deposited; it raises the first exception it finds and otherwise ends on
\* the empty queue; and once the thread is done a teardown that waits ends.
C18_TeardownOrder ==
    /\ [](wsPc \in {"joining", "draining", "exited", "exit_raised"}
            => /\ enqueued # <<>>
               /\ enqueued[Len(enqueued)] = Disconnect1000)
    /\ [](wsPc \in {"draining", "exited", "exit_raised"}
            => threadState = "done")
    /\ [](wsPc = "exited" => _send_queue = <<>>)
    /\ [](wsPc = "exit_raised"
            => /\ IsException(callerReceived[Len(callerReceived)])
               /\ wsExc = Failure(callerReceived[Len(callerReceived)].exc, 0))
    /\ (wsPc = "joining" /\ threadState = "done")
          ~> (wsPc \in {"exited", "exit_raised"})

\* C18's case: the teardown has ended after taking items off _send_queue,
\* the application having received the disconnect before it ended.
C18_Witness ==
    /\ wsPc = "exited"
    /\ threadState = "done"
    /\ appReceived # <<>>
    /\ appReceived[Len(appReceived)] = Disconnect1000
    /\ Len(callerReceived) >= 2

\* C20: _asgi_receive reaches its get only on a queue that is not empty, so
\* the get never blocks; what the application has received, followed by what
\* is still queued, is what the caller enqueued: each message at most once
\* and in the order of the puts.
C20_ReceiveNeverBlocks ==
    /\ threadState = "getting" => _receive_queue # <<>>
    /\ appReceived \o _receive_queue = enqueued

\* C20's case: the application has received two messages while a later
\* one of the caller is still queued.
C20_Witness ==
    /\ Len(appReceived) >= 2
    /\ _receive_queue # <<>>
    /\ threadState = "getting"

\* C17: receive has returned http.disconnect only if the request body was
\* wholly delivered and the response is complete; a receive suspended in its
\* sleep loop was called after the request was drained, and while the
\* response is not complete it has returned nothing.
C17_DisconnectAfterBoth ==
    /\ (\E i \in 1..Len(received) : received[i] = Disconnect)
          => request_complete /\ response_complete
    /\ recvPending => request_complete
    /\ (recvPending /\ ~response_complete)
          => \A i \in 1..Len(received) : received[i] # Disconnect

\* C17's case: a receive called after the request was drained is suspended
\* while the response has started and is not complete.
C17_Witness ==
    /\ recvPending
    /\ request_complete
    /\ response_started
    /\ ~response_complete
    /\ received # <<>>

\* The caller is past __enter__, which returned normally.
Entered == lifespanPc \in {"entered", "wait_shutdown", "exited", "exit_raised"}

\* C13: when the first message the application sends is
\* lifespan.startup.failed, __enter__ does not return normally, whatever the
\* application does after it.
C13_StartupFailedSurfaces ==
    (lifespanPut # <<>> /\ lifespanPut[1].type = "lifespan.startup.failed")
    => ~Entered

C15_SentinelOnceAndLast ==
    /\ task \in {"returned", "raised"}
          <=> \E i \in 1..Len(lifespanPut) : lifespanPut[i] = Sentinel
    /\ \A i \in 1..Len(lifespanPut) :
          lifespanPut[i] = Sentinel => i = Len(lifespanPut)

\* C15's case: the application raised after two handshake messages and None
\* is the third and last item.
C15_Witness ==
    /\ task = "raised"
    /\ Len(lifespanPut) = 3
    /\ lifespanPut[3] = Sentinel
    /\ lifespanPut[1].type = "lifespan.startup.complete"

\* C19: when the message wait_startup first awaits, or the one
\* wait_shutdown awaits, is None, the wait raises: the task's failure when
\* the task raised, a TypeError (None has no "type") when it returned; the
\* wait takes nothing more and the caller never gets past it.
C19_SentinelRaises ==
    \A i \in 1..Len(lifespanGot) :
        (lifespanGot[i].item = Sentinel
            /\ lifespanGot[i].at \in {"wait_startup", "wait_shutdown"})
        => /\ i = Len(lifespanGot)
           /\ lifespanPc = IF lifespanGot[i].at = "wait_startup"
                           THEN "enter_raised" ELSE "exit_raised"
           /\ lifespanExc = IF task = "raised" THEN Failure("AppError", 0)
                            ELSE Failure("TypeError", 0)

\* C19's case: wait_shutdown took None off send_queue after the application
\* raised, and __exit__ raised the application's failure.
C19_Witness ==
    /\ lifespanGot # <<>>
    /\ lifespanGot[Len(lifespanGot)] = [at |-> "wait_shutdown", item |-> Sentinel]
    /\ task = "raised"
    /\ lifespanPc = "exit_raised"
    /\ lifespanExc = Failure("AppError", 0)

\* The request of websocket_connect goes to a ws or wss URL.
ToWs == url.scheme \in {"ws", "wss"}

\* C16 as stated: on a ws or wss URL the adapter is always left by _Upgrade
\* and websocket_connect returns the session; on an http or https URL it is
\* never left by _Upgrade and websocket_connect, given a response, raises
\* RuntimeError.
C16_Original ==
    /\ ToWs => /\ escape \in {"none", "_Upgrade"}
               /\ connected \in {"none", "session"}
    /\ ~ToWs => /\ escape # "_Upgrade"
                /\ (escape = "response" /\ connected # "none")
                      => connected = "RuntimeError"

\* C16: on a ws or wss URL no HTTP exchange runs and the adapter is left
\* by _Upgrade exactly when the construction of the session succeeded,
\* otherwise by the failure of the construction; websocket_connect returns
\* the session exactly when the adapter was left by _Upgrade. On an http
\* or https URL no session is constructed, the adapter is never left by
\* _Upgrade, and websocket_connect never returns: it raises RuntimeError
\* on a response and the failure of the exchange otherwise.
C16_Dispatch ==
    /\ ToWs => /\ outcome.kind = "pending"
               /\ escape \in {"none", "_Upgrade", "raised"}
               /\ escape = "_Upgrade" => wsPc = "open"
               /\ escape = "raised" => wsPc = "failed"
    /\ ~ToWs => /\ wsPc = "init" /\ ctorStep = 1
                /\ escape \in {"none", "response", "raised"}
                /\ escape # "none" => escape = outcome.kind
    /\ connected # "none"
          => connected = CASE escape = "_Upgrade" -> "session"
                           [] escape = "response" -> "RuntimeError"
                           [] OTHER -> "raised"

\* C16's case: on a wss URL the construction failed on the application's
\* close, the adapter was left by that failure and websocket_connect raised.
C16_Witness ==
    /\ url.scheme = "wss"
    /\ wsExc = WebSocketDisconnect(1008)
    /\ escape = "raised"
    /\ connected = "raised"

====
